---- MODULE Spec2Model ----
(***************************************************************************)
(* Model of the intruder-detection record store (src/storage.py) and       *)
(* notifier (src/AI-backend/alert.py).                                     *)
(*                                                                         *)
(* The state is the SQLite file alerts.db (whether the alerts table        *)
(* exists, which of the upgrade columns it has, its rows), the             *)
(* process-wide Firestore client, the remote collection, and a record of   *)
(* the last call made by the caller: its arguments, what it returned,      *)
(* whether an exception escaped it, and what its external collaborators    *)
(* answered.                                                               *)
(*                                                                         *)
(* The rows are kept in the order of their ids.  AUTOINCREMENT gives every *)
(* inserted row an id larger than every id given before, so an insert      *)
(* appends; the id itself is selected nowhere and is left out of the row.  *)
(*                                                                         *)
(* Python's None and SQL's NULL are the string "None"; the True and False  *)
(* given as arguments are the strings "True" and "False".                  *)
(***************************************************************************)
EXTENDS Integers, Sequences, FiniteSets, TLC

VARIABLES
    table_exists,     \* alerts.db holds a table named alerts
    columns,          \* the upgrade columns the alerts table has
    rows,             \* the rows of the alerts table, by ascending id
    firestore_db,     \* module-level Firestore client: TRUE when configured
    docs,             \* documents of the remote collection animal_alerts
    inserted,         \* history: image paths by their last successful insert
    op                \* the last call: arguments, result, collaborators' answers

vars == <<table_exists, columns, rows, firestore_db, docs, inserted, op>>

None == "None"

(***************************************************************************)
(* Bounds of the model and the sets the callers' inputs are drawn from.    *)
(***************************************************************************)
MaxDocs == 1
MaxLimit == 3

Paths == {"a.jpg", "b.jpg", "c.jpg"}
TwoPaths == {"a.jpg", "b.jpg"}
Labels == {"deer", "boar"}
Timestamps == {"2024-05-01 10:00:00"}
CloudUrls == {"https://res.cloudinary.com/x/1.jpg"}
PublicIds == {"wildlife_alerts/1"}
Limits == (0 - 1) .. MaxLimit
PyFlags == {None, "True", "False"}

Min(a, b) == IF a <= b THEN a ELSE b

(***************************************************************************)
(* init_db: the schema.                                                    *)
(***************************************************************************)
\* The keys of the upgrades dict: the columns init_db adds when missing.
UpgradeColumns == {"synced", "telegram_sent", "latitude", "longitude", "location"}

\* A variant of MissingColumns without the "if col not in columns" test.
MissingColumnsNoCheck(cols) == UpgradeColumns

\* The columns the upgrade loop adds: those of upgrades not in PRAGMA table_info.
MissingColumns(cols) == UpgradeColumns \ cols

\* ALTER TABLE ... ADD COLUMN raises "duplicate column name" for a column
\* the table already has.
AlterRaises(cols, toAdd) == toAdd \cap cols # {}

(***************************************************************************)
(* store_alert: the pieces of the pipeline.                                *)
(***************************************************************************)
\* What geocoder.ip('me') can answer: it raises, or gives an object whose
\* latlng is a pair or empty and whose city is a name or None.
GeoAnswers ==
    { [raised |-> TRUE,  latlng |-> <<>>, city |-> None],
      [raised |-> FALSE, latlng |-> <<>>, city |-> None],
      [raised |-> FALSE, latlng |-> <<"18.52", "73.86">>, city |-> None],
      [raised |-> FALSE, latlng |-> <<"18.52", "73.86">>, city |-> "Pune"] }

GeoRaisedOrCity == { g \in GeoAnswers : g.raised \/ g.city # None }

\* Lines 86-93: latitude, longitude and location from the lookup.
Geolocate(g) ==
    IF g.raised
    THEN [latitude |-> None, longitude |-> None, location |-> "Unknown"]
    ELSE [latitude  |-> IF g.latlng # <<>> THEN g.latlng[1] ELSE None,
          longitude |-> IF g.latlng # <<>> THEN g.latlng[2] ELSE None,
          location  |-> IF g.city # None THEN g.city ELSE "Unknown"]

\* What cloudinary.uploader.upload can answer: it raises, or gives a dict
\* that may or may not hold "secure_url" and "public_id".
UploadAnswers ==
    { [raised |-> TRUE, secure_url |-> None, public_id |-> None] } \cup
    [raised : {FALSE}, secure_url : CloudUrls \cup {None},
     public_id : PublicIds \cup {None}]

UploadRaisedOrFull ==
    { u \in UploadAnswers : u.raised \/ (u.secure_url # None /\ u.public_id # None) }

\* Lines 82-83 and 96-106: cloud_url and public_id after the upload step.
Upload(u) ==
    IF u.raised
    THEN <<None, None>>
    ELSE <<u.secure_url, u.public_id>>

\* A variant of SyncedFlag that marks every inserted row as synced.
SyncedFlagAlways(cloud_url) == 1

\* A variant of SyncedFlag that leaves synced at its default.
SyncedFlagNever(cloud_url) == 0

\* Line 119: 1 if cloud_url else 0.
SyncedFlag(cloud_url) == IF cloud_url # None THEN 1 ELSE 0

HasRow(rs, path) == \E i \in 1..Len(rs) : rs[i].image_path = path

RowOf(rs, path) == rs[CHOOSE i \in 1..Len(rs) : rs[i].image_path = path]

\* A blind upsert: telegram_sent is written as 0.
TelegramSentBlind(rs, path) == 0

\* Line 117: COALESCE((SELECT telegram_sent FROM alerts WHERE image_path = ?), 0),
\* evaluated before the conflicting row is deleted.
TelegramSentSubquery(rs, path) ==
    IF HasRow(rs, path) THEN RowOf(rs, path).telegram_sent ELSE 0

\* Lines 112-120: the row the INSERT writes.
NewRow(rs, label, timestamp, path, cloud_url, geo) ==
    [label         |-> label,
     timestamp     |-> timestamp,
     image_path    |-> path,
     cloud_url     |-> cloud_url,
     synced        |-> SyncedFlag(cloud_url),
     telegram_sent |-> TelegramSentSubquery(rs, path),
     latitude      |-> geo.latitude,
     longitude     |-> geo.longitude,
     location      |-> geo.location]

\* What the last call's record keeps of a replaced row.
Flags(r) ==
    [cloud_url |-> r.cloud_url, synced |-> r.synced, telegram_sent |-> r.telegram_sent]

\* s without its elements for path.
RECURSIVE Without(_, _)
Without(s, path) ==
    IF s = <<>> THEN <<>>
    ELSE IF Head(s).image_path = path THEN Without(Tail(s), path)
    ELSE <<Head(s)>> \o Without(Tail(s), path)

\* INSERT OR IGNORE: the conflicting row stays and the new one is dropped.
InsertOrIgnore(rs, row) ==
    IF HasRow(rs, row.image_path) THEN rs ELSE Append(rs, row)

\* An upsert that overwrites the conflicting row where it is, keeping its id.
UpdateInPlace(rs, row) ==
    IF HasRow(rs, row.image_path)
    THEN [i \in 1..Len(rs) |-> IF rs[i].image_path = row.image_path THEN row ELSE rs[i]]
    ELSE Append(rs, row)

\* INSERT OR REPLACE with image_path UNIQUE: the conflicting row is deleted,
\* then the new row is inserted under a new id.
InsertOrReplace(rs, row) == Append(Without(rs, row.image_path), row)

\* The INSERT names all five upgrade columns: SQLite raises when the table
\* or one of them is missing.
InsertRaises == ~table_exists \/ ~(UpgradeColumns \subseteq columns)

\* A variant of MirrorWanted that mirrors whenever a client is configured.
MirrorWantedNoUrl(client, cloud_url) == client

\* Line 127: if firestore_db and cloud_url.
MirrorWanted(client, cloud_url) == client /\ cloud_url # None

\* Lines 130-138: the document doc_ref.set writes.
Document(label, timestamp, path, cloud_url, geo) ==
    [label      |-> label,
     timestamp  |-> timestamp,
     cloud_url  |-> cloud_url,
     local_path |-> path,
     latitude   |-> geo.latitude,
     longitude  |-> geo.longitude,
     location   |-> geo.location]

(***************************************************************************)
(* get_latest_alerts and update_alert_status: the SQL statements.          *)
(***************************************************************************)
\* The columns line 149 selects.
Project(r) ==
    <<r.label, r.timestamp, r.cloud_url, r.latitude, r.longitude, r.location>>

\* ORDER BY id DESC.
OrderByIdDesc(rs) == [i \in 1..Len(rs) |-> rs[Len(rs) + 1 - i]]

\* SQLite's LIMIT: a negative value puts no upper bound on the rows returned.
SqlLimit(s, limit) ==
    IF limit < 0 \/ limit >= Len(s) THEN s ELSE SubSeq(s, 1, limit)

\* A variant of SelectLatest that orders by ascending id.
SelectOldest(rs, limit) ==
    LET s == SqlLimit(rs, limit)
    IN  [i \in 1..Len(s) |-> Project(s[i])]

\* Line 149: SELECT ... FROM alerts ORDER BY id DESC LIMIT ?.
SelectLatest(rs, limit) ==
    LET s == SqlLimit(OrderByIdDesc(rs), limit)
    IN  [i \in 1..Len(s) |-> Project(s[i])]

\* The SELECT names latitude, longitude and location.
SelectRaises ==
    ~table_exists \/ ~({"latitude", "longitude", "location"} \subseteq columns)

\* The columns the UPDATE of lines 162-167 names.
UpdateColumns(telegram_ok, synced) ==
    (IF telegram_ok # None THEN {"telegram_sent"} ELSE {}) \cup
    (IF synced # None THEN {"synced"} ELSE {})

UpdateRaises(telegram_ok, synced) ==
    ~table_exists \/ ~(UpdateColumns(telegram_ok, synced) \subseteq columns)

\* 1 if flag else 0.
Bit(flag) == IF flag = "True" THEN 1 ELSE 0

\* A variant of UpdateRows whose UPDATE has no WHERE clause.
UpdateRowsNoWhere(rs, path, telegram_ok, synced) ==
    [i \in 1..Len(rs) |->
        [rs[i] EXCEPT !.telegram_sent = IF telegram_ok # None THEN Bit(telegram_ok) ELSE @,
                      !.synced = IF synced # None THEN Bit(synced) ELSE @]]

\* Lines 162-167: UPDATE alerts SET ... WHERE image_path = ?.
UpdateRows(rs, path, telegram_ok, synced) ==
    [i \in 1..Len(rs) |->
        IF rs[i].image_path = path
        THEN [rs[i] EXCEPT !.telegram_sent = IF telegram_ok # None THEN Bit(telegram_ok) ELSE @,
                           !.synced = IF synced # None THEN Bit(synced) ELSE @]
        ELSE rs[i]]

(***************************************************************************)
(* send_alert.                                                             *)
(***************************************************************************)
HTTP_OK == 200

\* What requests.post can answer: it raises, or gives a response with a
\* status code (401 and 404 are Telegram's answers to an invalid bot token).
Statuses == {200, 201, 401, 404, 500}

HttpAnswers ==
    { [raised |-> TRUE, status_code |-> 0] } \cup
    [raised : {FALSE}, status_code : Statuses]

HttpOkOrRaised == { h \in HttpAnswers : h.raised \/ h.status_code = HTTP_OK }

ExtraMessages == {None, "near the fence"}

\* Lines 16-18: the caption, as the list of its parts.
Caption(label, timestamp, extra_msg) ==
    <<"[ALERT] ", label, " detected at ", timestamp>> \o
    (IF extra_msg # None THEN <<"\n", extra_msg>> ELSE <<>>)

\* A variant of Delivered that takes every 2xx status for a success.
DeliveredAny2xx(status_code) == status_code >= 200 /\ status_code < 300

\* Line 26: resp.status_code == 200.
Delivered(status_code) == status_code = HTTP_OK

(***************************************************************************)
(* The record of the last call.                                            *)
(***************************************************************************)
NoCall ==
    [name        |-> "start",
     path        |-> None,
     limit       |-> 0,
     telegram_ok |-> None,
     synced      |-> None,
     ret         |-> None,
     raised      |-> FALSE,     \* an exception escaped to the caller
     upload      |-> <<>>,      \* the upload's answer, when it was called
     old         |-> <<>>,      \* the flags of the row the insert replaced
     sqlite_ok   |-> TRUE,      \* the call's SQL statements ran without error
     mirror      |-> None,      \* "skipped" / "ok" / "failed"
     requests    |-> <<>>,      \* the requests posted to the messaging endpoint
     file_ok     |-> TRUE,      \* open(img_path, "rb") succeeded
     status_code |-> 0,         \* the response's status, 0 when there is none
     added       |-> {},        \* the columns init_db added
     again       |-> FALSE]     \* init_db right after init_db

(***************************************************************************)
(* The state after import: lines 22-36 set firestore_db; alerts.db is      *)
(* whatever an earlier run left: no table, a table of an older schema      *)
(* missing some of the upgrade columns, or the full table.  It holds no    *)
(* rows yet.                                                               *)
(***************************************************************************)
Init ==
    /\ table_exists \in BOOLEAN
    /\ columns \in SUBSET UpgradeColumns
    /\ (~table_exists => columns = {})
    /\ rows = <<>>
    /\ firestore_db \in BOOLEAN
    /\ docs = <<>>
    /\ inserted = <<>>
    /\ op = NoCall

(***************************************************************************)
(* init_db(), lines 38-74.  No handler: an SQLite error escapes.           *)
(***************************************************************************)
InitDb ==
    LET created == IF table_exists THEN columns ELSE UpgradeColumns
        toAdd   == MissingColumns(created)
        call    == [NoCall EXCEPT !.name = "init_db", !.again = (op.name = "init_db")]
    IN  /\ table_exists' = TRUE
        /\ IF AlterRaises(created, toAdd)
           THEN /\ columns' = created
                /\ op' = [call EXCEPT !.raised = TRUE, !.sqlite_ok = FALSE]
           ELSE /\ columns' = created \cup toAdd
                /\ op' = [call EXCEPT !.added = toAdd]
        /\ UNCHANGED <<rows, firestore_db, docs, inserted>>

(***************************************************************************)
(* store_alert(label, img_path), lines 76-143.                             *)
(***************************************************************************)
StoreAlert(label, path, timestamp, g, u, mirror_ok) ==
    LET geo       == Geolocate(g)
        up        == Upload(u)
        cloud_url == up[1]
        row       == NewRow(rows, label, timestamp, path, cloud_url, geo)
        wanted    == MirrorWanted(firestore_db, cloud_url)
    IN  /\ (wanted /\ mirror_ok => Len(docs) < MaxDocs)
        /\ IF InsertRaises
           THEN UNCHANGED <<rows, inserted>>
           ELSE /\ rows' = InsertOrReplace(rows, row)
                /\ inserted' = Append(SelectSeq(inserted, LAMBDA q : q # path), path)
        /\ docs' = IF wanted /\ mirror_ok
                   THEN Append(docs, Document(label, timestamp, path, cloud_url, geo))
                   ELSE docs
        /\ op' = [NoCall EXCEPT
                    !.name = "store_alert",
                    !.path = path,
                    !.ret = up,
                    !.upload = <<u>>,
                    !.old = IF ~InsertRaises /\ HasRow(rows, path)
                            THEN <<Flags(RowOf(rows, path))>> ELSE <<>>,
                    !.sqlite_ok = ~InsertRaises,
                    !.mirror = IF ~wanted THEN "skipped"
                               ELSE IF mirror_ok THEN "ok" ELSE "failed"]
        /\ UNCHANGED <<table_exists, columns, firestore_db>>

(***************************************************************************)
(* get_latest_alerts(limit), lines 145-152.  No handler: an SQLite error   *)
(* escapes.                                                                *)
(***************************************************************************)
GetLatestAlerts(limit) ==
    /\ op' = IF SelectRaises
             THEN [NoCall EXCEPT !.name = "get_latest_alerts", !.limit = limit,
                                 !.raised = TRUE, !.sqlite_ok = FALSE]
             ELSE [NoCall EXCEPT !.name = "get_latest_alerts", !.limit = limit,
                                 !.ret = SelectLatest(rows, limit)]
    /\ UNCHANGED <<table_exists, columns, rows, firestore_db, docs, inserted>>

(***************************************************************************)
(* update_alert_status(img_path, telegram_ok, synced), lines 154-171.      *)
(***************************************************************************)
UpdateAlertStatus(path, telegram_ok, synced) ==
    LET call == [NoCall EXCEPT !.name = "update_alert_status", !.path = path,
                               !.telegram_ok = telegram_ok, !.synced = synced]
    IN  /\ IF telegram_ok = None /\ synced = None
           THEN /\ op' = call
                /\ rows' = rows
           ELSE IF UpdateRaises(telegram_ok, synced)
           THEN /\ op' = [call EXCEPT !.sqlite_ok = FALSE]
                /\ rows' = rows
           ELSE /\ op' = call
                /\ rows' = UpdateRows(rows, path, telegram_ok, synced)
        /\ UNCHANGED <<table_exists, columns, firestore_db, docs, inserted>>

(***************************************************************************)
(* send_alert(label, timestamp, img_path, extra_msg), lines 10-34.         *)
(***************************************************************************)
SendAlert(label, timestamp, path, extra_msg, file_ok, h) ==
    LET call == [NoCall EXCEPT !.name = "send_alert", !.path = path,
                               !.file_ok = file_ok]
        request == [chat_id |-> "CHAT_ID", photo |-> path,
                    caption |-> Caption(label, timestamp, extra_msg)]
    IN  /\ op' = IF ~file_ok
                 THEN [call EXCEPT !.ret = FALSE]
                 ELSE IF h.raised
                 THEN [call EXCEPT !.ret = FALSE, !.requests = <<request>>]
                 ELSE [call EXCEPT !.ret = Delivered(h.status_code),
                                   !.requests = <<request>>,
                                   !.status_code = h.status_code]
        /\ UNCHANGED <<table_exists, columns, rows, firestore_db, docs, inserted>>

(***************************************************************************)
(* The record store under every input of store_alert and                   *)
(* update_alert_status, on two image paths.                                *)
(***************************************************************************)
Next ==
    \/ InitDb
    \/ \E path \in TwoPaths, g \in GeoRaisedOrCity, u \in UploadAnswers, mirror_ok \in BOOLEAN :
          StoreAlert("deer", path, "2024-05-01 10:00:00", g, u, mirror_ok)
    \/ \E limit \in {1} : GetLatestAlerts(limit)
    \/ \E path \in TwoPaths, telegram_ok \in PyFlags, synced \in PyFlags :
          UpdateAlertStatus(path, telegram_ok, synced)
    \/ \E h \in HttpOkOrRaised :
          SendAlert("deer", "2024-05-01 10:00:00", "a.jpg", None, TRUE, h)

Spec == Init /\ [][Next]_vars


(***************************************************************************)
(* The read-back under every limit, on three image paths and two labels.   *)
(***************************************************************************)
NextLatest ==
    \/ InitDb
    \/ \E label \in Labels, path \in Paths, u \in UploadRaisedOrFull, mirror_ok \in BOOLEAN :
          StoreAlert(label, path, "2024-05-01 10:00:00",
                     [raised |-> FALSE, latlng |-> <<>>, city |-> None], u, mirror_ok)
    \/ \E limit \in Limits : GetLatestAlerts(limit)
    \/ UpdateAlertStatus("a.jpg", "True", None)
    \/ \E h \in HttpOkOrRaised :
          SendAlert("deer", "2024-05-01 10:00:00", "a.jpg", None, TRUE, h)

SpecLatest == Init /\ [][NextLatest]_vars

(***************************************************************************)
(* The notifier under every input and every answer of the messaging        *)
(* endpoint, beside a record store that holds rows.                        *)
(***************************************************************************)
NextNotifier ==
    \/ InitDb
    \/ \E path \in TwoPaths, u \in UploadRaisedOrFull, mirror_ok \in BOOLEAN :
          StoreAlert("deer", path, "2024-05-01 10:00:00",
                     [raised |-> TRUE, latlng |-> <<>>, city |-> None], u, mirror_ok)
    \/ GetLatestAlerts(1)
    \/ UpdateAlertStatus("a.jpg", "True", None)
    \/ \E label \in Labels, timestamp \in Timestamps, path \in Paths,
          extra_msg \in ExtraMessages, file_ok \in BOOLEAN, h \in HttpAnswers :
          SendAlert(label, timestamp, path, extra_msg, file_ok, h)

SpecNotifier == Init /\ [][NextNotifier]_vars

(***************************************************************************)
(* The properties.                                                         *)
(***************************************************************************)
FullTable == table_exists /\ UpgradeColumns \subseteq columns

Derived(r) == (r.synced = 1) <=> (r.cloud_url # None)

\* C1: store_alert on an image_path that already has a row leaves the row's
\* telegram_sent as it was just before the call, whatever update_alert_status
\* set it to; when the insert runs, the path's row is replaced by the one row
\* written last; a path with no prior row gets telegram_sent = 0.
C1_TelegramSentPreserved ==
    [][op'.name = "store_alert" =>
        LET p == op'.path
        IN  /\ HasRow(rows, p) =>
                 /\ HasRow(rows', p)
                 /\ RowOf(rows', p).telegram_sent = RowOf(rows, p).telegram_sent
            /\ ~HasRow(rows, p) /\ HasRow(rows', p) =>
                 RowOf(rows', p).telegram_sent = 0
            /\ FullTable =>
                 /\ Len(rows') = Len(rows) + (IF HasRow(rows, p) THEN 0 ELSE 1)
                 /\ rows'[Len(rows')].image_path = p
                 /\ \A i \in 1..(Len(rows') - 1) : rows'[i].image_path # p
    ]_vars

\* C1 witness: store_alert has replaced a row whose telegram_sent was 1 and
\* the new row's telegram_sent is 1.
C1_Witness ==
    /\ op.name = "store_alert"
    /\ op.old # <<>>
    /\ op.old[1].telegram_sent = 1
    /\ HasRow(rows, op.path)
    /\ RowOf(rows, op.path).telegram_sent = 1

\* C2: no operation lets an exception escape to its caller, in any reachable
\* state, the alerts table not existing included.
C2_NothingEscapes == ~op.raised

\* C3 as stated: store_alert returns a pair whose elements are both absent or
\* both present, present only when the upload succeeded and returned the
\* identifier too; and whenever the returned cloud URL is present the row of
\* image_path has synced = 1 when store_alert returns.
C3_BothOrNeitherAndSynced ==
    op.name = "store_alert" =>
        /\ Len(op.ret) = 2
        /\ (op.ret[1] = None) <=> (op.ret[2] = None)
        /\ op.ret[1] # None =>
             /\ ~op.upload[1].raised
             /\ op.upload[1].public_id # None
        /\ op.ret[1] # None =>
             /\ HasRow(rows, op.path)
             /\ RowOf(rows, op.path).synced = 1

\* C3 amended: store_alert returns a pair: (None, None) when the upload
\* raised, else the response's secure_url and public_id, each as the response
\* holds it; and whenever the returned cloud URL is present and the alerts
\* table exists with all five upgrade columns, the row of image_path has
\* synced = 1 when store_alert returns.
C3_PairFromUploadAndSynced ==
    op.name = "store_alert" =>
        /\ ~op.raised
        /\ Len(op.ret) = 2
        /\ op.upload[1].raised => op.ret = <<None, None>>
        /\ ~op.upload[1].raised =>
             op.ret = <<op.upload[1].secure_url, op.upload[1].public_id>>
        /\ op.ret[1] # None /\ FullTable =>
             /\ HasRow(rows, op.path)
             /\ RowOf(rows, op.path).synced = 1

\* C3 witness: store_alert has returned a URL and an identifier and the row
\* of its image_path is synced.
C3_Witness ==
    /\ op.name = "store_alert"
    /\ op.ret[1] # None
    /\ op.ret[2] # None
    /\ HasRow(rows, op.path)
    /\ RowOf(rows, op.path).synced = 1
    /\ RowOf(rows, op.path).cloud_url = op.ret[1]

\* C4: a row's synced is 1 exactly when the row has a cloud_url, unless
\* update_alert_status set it with a synced argument: no step makes a row
\* whose synced differs from that except update_alert_status with a synced
\* argument on the row's image_path (the table starts without rows), and
\* every row store_alert writes has synced = 1 iff the call got a cloud URL,
\* whatever synced the path's row carried before.
C4_SyncedDerived ==
    [][/\ \A i \in 1..Len(rows') :
            LET r == rows'[i]
            IN  \/ Derived(r)
                \/ /\ HasRow(rows, r.image_path)
                   /\ RowOf(rows, r.image_path).synced = r.synced
                   /\ RowOf(rows, r.image_path).cloud_url = r.cloud_url
                \/ /\ op'.name = "update_alert_status"
                   /\ op'.synced # None
                   /\ op'.path = r.image_path
       /\ op'.name = "store_alert" /\ FullTable =>
            /\ HasRow(rows', op'.path)
            /\ RowOf(rows', op'.path).cloud_url = op'.ret[1]
            /\ RowOf(rows', op'.path).synced = 1 <=> op'.ret[1] # None
    ]_vars

\* C4 witness: store_alert has replaced a row whose synced had been set against
\* its cloud_url, and the new row's synced follows its cloud_url.
C4_Witness ==
    /\ op.name = "store_alert"
    /\ op.old # <<>>
    /\ ~Derived(op.old[1])
    /\ HasRow(rows, op.path)
    /\ Derived(RowOf(rows, op.path))

\* C5 as stated: when the upload raises, store_alert completes, returns
\* (None, None), the table, given that it exists, holds a row for image_path
\* with cloud_url NULL and synced = 0, and no remote document is created.
C5_UploadRaisesTableExists ==
    op.name = "store_alert" /\ op.upload[1].raised =>
        /\ ~op.raised
        /\ op.ret = <<None, None>>
        /\ op.mirror = "skipped"
        /\ table_exists =>
             /\ HasRow(rows, op.path)
             /\ RowOf(rows, op.path).cloud_url = None
             /\ RowOf(rows, op.path).synced = 0

\* C5 amended: when the upload raises, store_alert completes, returns
\* (None, None), the table, given that it exists with all five upgrade
\* columns, holds a row for image_path with cloud_url NULL and synced = 0,
\* and no remote document is created.
C5_UploadRaisesFullTable ==
    op.name = "store_alert" /\ op.upload[1].raised =>
        /\ ~op.raised
        /\ op.ret = <<None, None>>
        /\ op.mirror = "skipped"
        /\ FullTable =>
             /\ HasRow(rows, op.path)
             /\ RowOf(rows, op.path).cloud_url = None
             /\ RowOf(rows, op.path).synced = 0

\* C5 witness: the upload has raised on a path whose earlier row had a
\* cloud_url, and the row now has none and is not synced.
C5_Witness ==
    /\ op.name = "store_alert"
    /\ op.upload[1].raised
    /\ firestore_db
    /\ op.old # <<>>
    /\ op.old[1].cloud_url # None
    /\ HasRow(rows, op.path)
    /\ RowOf(rows, op.path).cloud_url = None
    /\ RowOf(rows, op.path).synced = 0

\* C6: store_alert attempts the mirror, which adds one document, only when
\* the client is configured and the call got a cloud URL; when the mirror
\* fails no document is added, the row the call wrote is in place as written,
\* and the call returns the URL and identifier of the upload.
C6_MirrorOnlyWhenWanted ==
    [][op'.name = "store_alert" =>
        /\ op'.mirror # "skipped" => firestore_db /\ op'.ret[1] # None
        /\ docs' # docs =>
             /\ firestore_db /\ op'.ret[1] # None
             /\ op'.mirror = "ok"
             /\ Len(docs') = Len(docs) + 1
             /\ SubSeq(docs', 1, Len(docs)) = docs
             /\ docs'[Len(docs')].local_path = op'.path
             /\ docs'[Len(docs')].cloud_url = op'.ret[1]
        /\ op'.mirror = "failed" =>
             /\ ~op'.raised
             /\ docs' = docs
             /\ op'.ret = <<op'.upload[1].secure_url, op'.upload[1].public_id>>
             /\ FullTable =>
                  /\ rows'[Len(rows')].image_path = op'.path
                  /\ rows'[Len(rows')].cloud_url = op'.ret[1]
                  /\ rows'[Len(rows')].synced = 1
    ]_vars

\* C6 witness: the mirror has failed and the row of the call is there with the
\* URL the call returned.
C6_Witness ==
    /\ op.name = "store_alert"
    /\ op.mirror = "failed"
    /\ HasRow(rows, op.path)
    /\ RowOf(rows, op.path).cloud_url = op.ret[1]
    /\ op.ret[2] # None

\* The rows get_latest_alerts is to return: those of the paths inserted last,
\* the last one first.
LatestInserted(n) ==
    [i \in 1..n |-> Project(RowOf(rows, inserted[Len(inserted) + 1 - i]))]

\* C7 as stated: for every limit, get_latest_alerts(limit) returns at most
\* limit rows, min(limit, number of rows) of them, the most recently inserted
\* first, a replacing store_alert counting as the record's insertion.
C7_AtMostLimitLatestFirst ==
    op.name = "get_latest_alerts" /\ ~op.raised =>
        /\ Len(inserted) = Len(rows)
        /\ Len(op.ret) <= op.limit
        /\ Len(op.ret) = Min(op.limit, Len(rows))
        /\ op.ret = LatestInserted(Len(op.ret))

\* C7 amended: for every limit >= 0, get_latest_alerts(limit) returns
\* min(limit, number of rows) rows, and for a negative limit all the rows; in
\* both cases the most recently inserted first, a replacing store_alert
\* counting as the record's insertion.
C7_LimitLatestFirst ==
    op.name = "get_latest_alerts" /\ ~op.raised =>
        /\ Len(inserted) = Len(rows)
        /\ op.limit >= 0 => Len(op.ret) = Min(op.limit, Len(rows))
        /\ op.limit < 0 => Len(op.ret) = Len(rows)
        /\ op.ret = LatestInserted(Len(op.ret))

\* C7 witness: three paths are stored, "a.jpg" last and "c.jpg" before it, and
\* limit = 2 has returned the row of "a.jpg" and then the row of "c.jpg".
C7_Witness ==
    /\ op.name = "get_latest_alerts"
    /\ op.limit = 2
    /\ Len(rows) = 3
    /\ inserted = <<"b.jpg", "c.jpg", "a.jpg">>
    /\ Len(op.ret) = 2
    /\ op.ret[1] = Project(RowOf(rows, "a.jpg"))
    /\ op.ret[2] = Project(RowOf(rows, "c.jpg"))
    /\ op.ret[1] # op.ret[2]
    /\ Project(RowOf(rows, "b.jpg")) # op.ret[2]

OtherColumns ==
    {"label", "timestamp", "image_path", "cloud_url", "latitude", "longitude", "location"}

\* C8: update_alert_status changes nothing but the flags whose argument is
\* given, on the row of image_path: every other row, every other column and
\* the flag whose argument is None stay; with both arguments None, or no row
\* for image_path, the store is unchanged; no exception escapes.
C8_UpdateFrame ==
    [][op'.name = "update_alert_status" =>
        /\ ~op'.raised
        /\ UNCHANGED <<table_exists, columns, docs>>
        /\ Len(rows') = Len(rows)
        /\ \A i \in 1..Len(rows) :
             /\ \A f \in OtherColumns : rows'[i][f] = rows[i][f]
             /\ op'.telegram_ok = None \/ rows[i].image_path # op'.path =>
                  rows'[i].telegram_sent = rows[i].telegram_sent
             /\ op'.synced = None \/ rows[i].image_path # op'.path =>
                  rows'[i].synced = rows[i].synced
        /\ (op'.telegram_ok = None /\ op'.synced = None) \/ ~HasRow(rows, op'.path) =>
             rows' = rows
    ]_vars

\* C8 witness: update_alert_status has set telegram_sent alone on one of two
\* rows; the other row's telegram_sent is 0 and the row's synced is 0.
C8_Witness ==
    /\ op.name = "update_alert_status"
    /\ op.telegram_ok = "True"
    /\ op.synced = None
    /\ Len(rows) = 2
    /\ HasRow(rows, op.path)
    /\ RowOf(rows, op.path).telegram_sent = 1
    /\ RowOf(rows, op.path).synced = 0
    /\ RowOf(rows, op.path).cloud_url # None
    /\ \E i \in 1..Len(rows) : rows[i].image_path # op.path /\ rows[i].telegram_sent = 0

\* C9: from any table state one init_db call yields the table with all the
\* columns and raises nothing; a second call right after adds no column and
\* leaves the columns and the rows as they are.
C9_InitDbIdempotent ==
    /\ [](op.name = "init_db" =>
            /\ ~op.raised
            /\ table_exists
            /\ columns = UpgradeColumns)
    /\ [][op'.name = "init_db" =>
            /\ op'.added = UpgradeColumns \ (IF table_exists THEN columns ELSE UpgradeColumns)
            /\ rows' = rows
            /\ op.name = "init_db" =>
                 /\ op'.added = {}
                 /\ UNCHANGED <<table_exists, columns, rows>>
       ]_vars

\* C9 witness: init_db has run right after init_db, on a table with rows.
C9_Witness ==
    /\ op.name = "init_db"
    /\ op.again
    /\ op.added = {}
    /\ Len(rows) > 0
    /\ columns = UpgradeColumns

\* C10: send_alert returns TRUE iff the image file opened and the one request
\* got status 200; otherwise FALSE; it raises nothing, posts at most one
\* request and leaves the local store as it is.
C10_SendAlertResult ==
    /\ [](op.name = "send_alert" =>
            /\ ~op.raised
            /\ op.ret <=> (op.file_ok /\ Len(op.requests) = 1 /\ op.status_code = 200)
            /\ Len(op.requests) <= 1
            /\ ~op.file_ok => op.requests = <<>>)
    /\ [][op'.name = "send_alert" =>
            UNCHANGED <<table_exists, columns, rows, docs>>]_vars

\* C10 witness: the endpoint has answered 401, as it does to an invalid bot
\* token, send_alert has returned FALSE after one request, and the store holds
\* rows.
C10_Witness ==
    /\ op.name = "send_alert"
    /\ op.status_code = 401
    /\ op.ret = FALSE
    /\ Len(op.requests) = 1
    /\ Len(rows) > 0

====
